---- MODULE Spec2Model ----
(***************************************************************************)
(* A model of get-filter-permissions.py: the paginated filter listing      *)
(* (get_jira_filters), the detail fetch on a pool of five worker threads   *)
(* (main, fetch_filter_details), the permission formatter                  *)
(* (format_permissions) and the report writer (save_filters_to_csv).       *)
(***************************************************************************)
EXTENDS Integers, Sequences, FiniteSets, TLC

VARIABLES
    pc,                  \* position of the main thread
    filters,             \* get_jira_filters: the accumulated summaries; main: its result
    start_at,            \* get_jira_filters: offset of the next listing request
    is_last,             \* get_jira_filters: the loop flag
    served,              \* trace: the listing responses received, in request order
    futures,             \* main: one future per submitted fetch_filter_details call
    invoked,             \* trace: the filter ids fetch_filter_details was called with
    filter_details,      \* main: results collected from as_completed
    yielded,             \* main: indices of the futures as_completed has yielded
    file,                \* content of jira_filters.csv (NoFile when it does not exist)
    csv_writes,          \* number of df.to_csv calls
    warnings,            \* logging.warning messages emitted
    printed,             \* whether the console confirmation line was printed
    permissions,         \* format_permissions: its argument
    formatted_permissions, \* format_permissions: the list built by the loop
    fmt_result           \* format_permissions: the returned string

vars == <<pc, filters, start_at, is_last, served, futures, invoked, filter_details,
          yielded, file, csv_writes, warnings, printed, permissions,
          formatted_permissions, fmt_result>>

listVars == <<filters, start_at, is_last, served>>
poolVars == <<futures, invoked, filter_details, yielded>>
outVars  == <<file, csv_writes, warnings, printed>>
fmtVars  == <<permissions, formatted_permissions, fmt_result>>

(***************************************************************************)
(* Bounds of the model.                                                    *)
(***************************************************************************)
MaxPages == 3        \* listing requests explored per run
PageCap == 2         \* summaries per page served by the unconstrained server
MaxFilters == 6      \* filters the server of a whole run holds
MaxPerms == 3        \* grants in a format_permissions argument
MaxDetails == 3      \* entries in a save_filters_to_csv argument

(***************************************************************************)
(* Program constants.                                                      *)
(***************************************************************************)
max_results == 50
max_workers == 5

(***************************************************************************)
(* Values.                                                                 *)
(***************************************************************************)
None == [none |-> TRUE]              \* Python's None, where a dict is expected
NoneText == "<None>"                 \* Python's None, where a string is expected
NoFile == [exists |-> FALSE]         \* jira_filters.csv does not exist
StaleFile == [columns |-> <<"stale">>, rows |-> <<>>]  \* left by an earlier run
Pending == [kind |-> "pending"]      \* a future that has not finished
Raised == [kind |-> "exception"]     \* a finished future holding an exception
Returned(v) == [kind |-> "value", value |-> v]   \* a finished future holding v

\* dict.get(key, default)
Get(d, key, default) == IF key \in DOMAIN d THEN d[key] ELSE default

RECURSIVE SeqsUpTo(_, _)
SeqsUpTo(S, n) ==
    IF n = 0 THEN {<<>>}
    ELSE LET shorter == SeqsUpTo(S, n - 1)
         IN  shorter \cup {Append(s, x) : s \in {t \in shorter : Len(t) = n - 1}, x \in S}

(***************************************************************************)
(* format_permissions (lines 76-93).                                       *)
(***************************************************************************)
\* Mutant: a grant of another type appends an empty item.
PermItemsEmptyForOther(perm) ==
    IF Get(perm, "type", NoneText) = "user" THEN <<perm.user.displayName>>
    ELSE IF Get(perm, "type", NoneText) = "group" THEN <<"Group: " \o perm.group.name>>
    ELSE IF Get(perm, "type", NoneText) = "projectRole"
         THEN <<"Project Role: " \o perm.projectRole.name>>
    ELSE <<"">>

\* One pass of the loop body: what a grant appends to formatted_permissions.
PermItems(perm) ==
    IF Get(perm, "type", NoneText) = "user" THEN <<perm.user.displayName>>
    ELSE IF Get(perm, "type", NoneText) = "group" THEN <<"Group: " \o perm.group.name>>
    ELSE IF Get(perm, "type", NoneText) = "projectRole"
         THEN <<"Project Role: " \o perm.projectRole.name>>
    ELSE <<>>

\* The for loop: the list after the grants perms have been visited, starting from acc.
RECURSIVE FormatLoop(_, _)
FormatLoop(acc, perms) ==
    IF perms = <<>> THEN acc
    ELSE FormatLoop(acc \o PermItems(Head(perms)), Tail(perms))

\* str.join
RECURSIVE Join(_, _)
Join(sep, items) ==
    IF items = <<>> THEN ""
    ELSE IF Len(items) = 1 THEN items[1]
    ELSE Join(sep, SubSeq(items, 1, Len(items) - 1)) \o sep \o items[Len(items)]

format_permissions(perms) == Join(", ", FormatLoop(<<>>, perms))

(***************************************************************************)
(* The data the server holds.                                              *)
(***************************************************************************)
UserAlice == [type |-> "user", user |-> [displayName |-> "Alice"]]
UserBob   == [type |-> "user", user |-> [displayName |-> "Bob"]]
GroupEng  == [type |-> "group", group |-> [name |-> "Eng"]]
RoleDev   == [type |-> "projectRole", projectRole |-> [name |-> "Dev"]]
Unknown   == [type |-> "unknown"]
Untyped   == [id |-> "10000"]

Grants == {UserAlice, UserBob, GroupEng, RoleDev, Unknown, Untyped}

\* A listing entry (FilterSummary).
SummaryOf(id) == [id |-> id]

\* The body of GET /filter/{id}; approximateLastUsed is optional.
DetailDoc(id) ==
    LET base == [id |-> id,
                 name |-> "F" \o ToString(id),
                 owner |-> [displayName |-> IF id % 2 = 0 THEN "Alice" ELSE "Bob"],
                 sharePermissions |-> IF id % 3 = 1 THEN <<UserAlice, GroupEng>> ELSE <<>>,
                 editPermissions |-> IF id % 3 = 2 THEN <<Unknown>> ELSE <<>>,
                 isWritable |-> (id % 2 = 1)]
    IN  IF id % 2 = 0 THEN base
        ELSE [k \in DOMAIN base \cup {"approximateLastUsed"} |->
                 IF k = "approximateLastUsed" THEN "2024-01-01" ELSE base[k]]

\* The documents of the filters the server holds.
Details == [id \in 1..MaxFilters |-> DetailDoc(id)]
DetailOf(id) == Details[id]

(***************************************************************************)
(* save_filters_to_csv (lines 95-122).                                     *)
(***************************************************************************)
Columns == <<"Filter name", "Owner", "Share Permissions", "Edit Permissions",
             "Is Writable", "Approximate Last Used">>

\* filter_info (lines 110-117)
FilterInfo(filter) ==
    [name      |-> filter.name,
     owner     |-> filter.owner.displayName,
     share     |-> format_permissions(filter.sharePermissions),
     edit      |-> format_permissions(filter.editPermissions),
     writable  |-> filter.isWritable,
     last_used |-> Get(filter, "approximateLastUsed", NoneText)]

\* The for loop (lines 106-118): data after visiting details, starting from data.
RECURSIVE CsvLoop(_, _)
CsvLoop(data, details) ==
    IF details = <<>> THEN data
    ELSE IF Head(details) = None THEN CsvLoop(data, Tail(details))
    ELSE CsvLoop(Append(data, FilterInfo(Head(details))), Tail(details))

\* The guard of line 102: an empty list is falsy.
NothingToSave(details) == details = <<>>

\* pd.DataFrame(data).to_csv: a frame built from no rows has no columns.
CsvOf(data) == [columns |-> IF data = <<>> THEN <<>> ELSE Columns, rows |-> data]

(***************************************************************************)
(* What requests.get can give: a response, or a transport exception.       *)
(***************************************************************************)
TransportError == [raised |-> TRUE]
Http(status, data) == [raised |-> FALSE, status_code |-> status, data |-> data]
ErrorBody == [errorMessages |-> <<"denied">>]

\* The bodies a listing request can get: with and without 'values' and 'isLast'.
ListingBodies(valueLists) ==
    {[values |-> v, isLast |-> b] : v \in valueLists, b \in BOOLEAN}
        \cup {[values |-> v] : v \in valueLists}
        \cup {ErrorBody, [isLast |-> FALSE]}

\* A server that may answer a listing request with anything.
AnyListingResponses ==
    {TransportError, Http(401, ErrorBody)}
        \cup {Http(200, d) : d \in ListingBodies(SeqsUpTo({SummaryOf(1), SummaryOf(2)}, PageCap))}

\* A server that holds MaxFilters filters and serves them in order, any number per page.
NewSummaries(have, k) == [j \in 1..k |-> SummaryOf(have + j)]

RunListingResponses(have) ==
    {TransportError, Http(401, ErrorBody)}
        \cup {Http(200, d) :
                d \in ListingBodies({NewSummaries(have, k) : k \in 0..(MaxFilters - have)})}

\* What GET /filter/{id} can give.
DetailResponses(id) == {TransportError, Http(404, ErrorBody), Http(200, DetailOf(id))}

(***************************************************************************)
(* get_jira_filters (lines 9-51).                                          *)
(***************************************************************************)
\* line 36
StatusOk(response) == response.status_code = 200

\* line 43
HasValues(data) == "values" \in DOMAIN data

\* Mutant: a failed request is skipped and the loop goes on.
OnBadStatusContinue == "list_loop"

\* lines 36-38: a failed request ends the loop
OnBadStatus == "list_break"

\* lines 43-45: a body without 'values' ends the loop
OnBadFormat == "list_break"

\* Mutant: the page is put in front of what was accumulated.
ExtendFront(list, values) == values \o list

\* line 47
Extend(list, values) == list \o values

\* Mutant: the loop stops on an empty page instead of on the flag.
NextIsLastOnEmpty(data) == data["values"] = <<>>

\* line 49
NextIsLast(data) == Get(data, "isLast", TRUE)

\* One iteration of the while loop (lines 30-49) that receives response.
GetJiraFiltersIter(response) ==
    /\ pc = "list_loop"
    /\ ~is_last
    /\ Len(served) < MaxPages
    /\ served' = Append(served, response)
    /\ IF response.raised
       THEN /\ pc' = "crashed"
            /\ UNCHANGED <<filters, start_at, is_last>>
       ELSE IF ~StatusOk(response)
       THEN /\ pc' = OnBadStatus
            /\ UNCHANGED <<filters, start_at, is_last>>
       ELSE IF ~HasValues(response.data)
       THEN /\ pc' = OnBadFormat
            /\ UNCHANGED <<filters, start_at, is_last>>
       ELSE /\ filters' = Extend(filters, response.data["values"])
            /\ start_at' = start_at + max_results
            /\ is_last' = NextIsLast(response.data)
            /\ pc' = "list_loop"
    /\ UNCHANGED <<poolVars, outVars, fmtVars>>

\* The loop ends (its condition fails, or a break) and line 51 returns filters.
GetJiraFiltersReturn ==
    /\ \/ pc = "list_loop" /\ is_last
       \/ pc = "list_break"
    /\ pc' = "list_returned"
    /\ UNCHANGED <<listVars, poolVars, outVars, fmtVars>>

(***************************************************************************)
(* main (lines 143-164).                                                   *)
(***************************************************************************)
\* lines 143-146: the callee's frame is gone; an empty result ends the run.
MainCheckFilters ==
    /\ pc = "list_returned"
    /\ start_at' = 0
    /\ is_last' = FALSE
    /\ served' = <<>>
    /\ IF filters = <<>>
       THEN /\ warnings' = warnings \cup {"No filters found."}
            /\ pc' = "done"
       ELSE /\ pc' = "submit"
            /\ UNCHANGED warnings
    /\ UNCHANGED <<filters, poolVars, file, csv_writes, printed, fmtVars>>

\* line 156: executor.submit for the next filter of the list.
Submit ==
    /\ pc = "submit"
    /\ Len(futures) < Len(filters)
    /\ futures' = Append(futures, [id |-> filters[Len(futures) + 1].id,
                                   state |-> "queued", result |-> Pending])
    /\ pc' = IF Len(futures') = Len(filters) THEN "collect" ELSE "submit"
    /\ UNCHANGED <<listVars, invoked, filter_details, yielded, outVars, fmtVars>>

InFlight == {i \in 1..Len(futures) : futures[i].state \in {"running", "hung"}}
Queued == {i \in 1..Len(futures) : futures[i].state = "queued"}
Finished == {i \in 1..Len(futures) : futures[i].state = "finished"}

\* Mutant: the pool starts a thread for every work item.
WorkerAlwaysFree == TRUE

\* ThreadPoolExecutor: a worker thread is free while fewer than max_workers calls run.
WorkerFree == Cardinality(InFlight) < max_workers

\* ThreadPoolExecutor: the work queue is first in, first out.
NextQueued == CHOOSE i \in Queued : \A j \in Queued : i <= j

\* A free worker takes the next work item and calls fetch_filter_details (lines 63-65).
WorkerStart ==
    /\ pc \in {"submit", "collect", "unwinding"}
    /\ Queued # {}
    /\ WorkerFree
    /\ futures' = [futures EXCEPT ![NextQueued].state = "running"]
    /\ invoked' = Append(invoked, futures[NextQueued].id)
    /\ UNCHANGED <<pc, listVars, filter_details, yielded, outVars, fmtVars>>

\* fetch_filter_details after requests.get (lines 65-74): what the call gives.
FetchOutcome(response) ==
    IF response.raised THEN Raised
    ELSE IF ~StatusOk(response) THEN Returned(None)
    ELSE Returned(response.data)

\* The request of future i is answered and the call ends.
FetchReturn(i, response) ==
    /\ pc \in {"submit", "collect", "unwinding"}
    /\ i \in 1..Len(futures)
    /\ futures[i].state = "running"
    /\ futures' = [futures EXCEPT ![i].state = "finished",
                                  ![i].result = FetchOutcome(response)]
    /\ UNCHANGED <<pc, listVars, invoked, filter_details, yielded, outVars, fmtVars>>

\* The request of future i is answered with any of the responses the server can give.
FetchAnswered(i) ==
    /\ i \in 1..Len(futures)
    /\ \E r \in DetailResponses(futures[i].id) : FetchReturn(i, r)

\* The request of future i is never answered (requests.get has no timeout).
FetchHang(i) ==
    /\ pc \in {"submit", "collect", "unwinding"}
    /\ i \in 1..Len(futures)
    /\ futures[i].state = "running"
    /\ futures' = [futures EXCEPT ![i].state = "hung"]
    /\ UNCHANGED <<pc, listVars, invoked, filter_details, yielded, outVars, fmtVars>>

\* Mutant: the None check is dropped.
KeepAlways(result) == TRUE

\* line 160
Keep(result) == result # None

\* lines 158-161: as_completed yields finished future i; future.result() re-raises.
Collect(i) ==
    /\ pc = "collect"
    /\ i \in Finished \ yielded
    /\ yielded' = yielded \cup {i}
    /\ IF futures[i].result = Raised
       THEN /\ pc' = "unwinding"
            /\ UNCHANGED filter_details
       ELSE /\ filter_details' = IF Keep(futures[i].result.value)
                                 THEN Append(filter_details, futures[i].result.value)
                                 ELSE filter_details
            /\ pc' = IF yielded' = 1..Len(futures) THEN "save" ELSE "collect"
    /\ UNCHANGED <<listVars, futures, invoked, outVars, fmtVars>>

\* line 155: leaving the with block on an exception waits for every submitted call,
\* then the exception leaves main.
ShutdownAfterError ==
    /\ pc = "unwinding"
    /\ Finished = 1..Len(futures)
    /\ pc' = "crashed"
    /\ UNCHANGED <<listVars, poolVars, outVars, fmtVars>>

\* line 163 and lines 102-122: save_filters_to_csv(filter_details, filename).
SaveFiltersToCsv ==
    /\ pc = "save"
    /\ IF NothingToSave(filter_details)
       THEN /\ warnings' = warnings \cup {"No filter details to save."}
            /\ UNCHANGED <<file, csv_writes>>
       ELSE /\ file' = CsvOf(CsvLoop(<<>>, filter_details))
            /\ csv_writes' = csv_writes + 1
            /\ UNCHANGED warnings
    /\ pc' = "save_returned"
    /\ UNCHANGED <<listVars, poolVars, printed, fmtVars>>

\* line 164
PrintConfirmation ==
    /\ pc = "save_returned"
    /\ printed' = TRUE
    /\ pc' = "done"
    /\ UNCHANGED <<listVars, poolVars, file, csv_writes, warnings, fmtVars>>

\* A call of format_permissions(permissions).
FormatPermissions ==
    /\ pc = "format"
    /\ formatted_permissions' = FormatLoop(<<>>, permissions)
    /\ fmt_result' = format_permissions(permissions)
    /\ pc' = "format_returned"
    /\ UNCHANGED <<listVars, poolVars, outVars, permissions>>

(***************************************************************************)
(* Specifications.                                                         *)
(***************************************************************************)
InitCommon ==
    /\ filters = <<>>
    /\ start_at = 0
    /\ is_last = FALSE
    /\ served = <<>>
    /\ futures = <<>>
    /\ invoked = <<>>
    /\ yielded = {}
    /\ csv_writes = 0
    /\ warnings = {}
    /\ printed = FALSE
    /\ formatted_permissions = <<>>
    /\ fmt_result = ""

\* A run of main, from the first listing request.
Init ==
    /\ InitCommon
    /\ pc = "list_loop"
    /\ filter_details = <<>>
    /\ file = NoFile
    /\ permissions = <<>>

Next ==
    \/ \E r \in RunListingResponses(Len(filters)) : GetJiraFiltersIter(r)
    \/ GetJiraFiltersReturn
    \/ MainCheckFilters
    \/ Submit
    \/ WorkerStart
    \/ \E i \in 1..Len(futures) : FetchAnswered(i)
    \/ \E i \in 1..Len(futures) : Collect(i)
    \/ ShutdownAfterError
    \/ SaveFiltersToCsv
    \/ PrintConfirmation

\* A request that is never answered is, for safety, a call that stays running.
Spec == Init /\ [][Next]_vars

\* The same run with the requests that are never answered marked as such, under the
\* scheduling of threads: a thread that can take its next step eventually takes it,
\* and a request that is not hung is eventually answered.
NextFair ==
    \/ Next
    \/ \E i \in 1..Len(futures) : FetchHang(i)

Fairness ==
    /\ WF_vars(\E r \in RunListingResponses(Len(filters)) : GetJiraFiltersIter(r))
    /\ WF_vars(GetJiraFiltersReturn)
    /\ WF_vars(MainCheckFilters)
    /\ WF_vars(Submit)
    /\ WF_vars(WorkerStart)
    /\ \A i \in 1..MaxFilters : WF_vars(FetchAnswered(i))
    /\ \A i \in 1..MaxFilters : WF_vars(Collect(i))
    /\ WF_vars(ShutdownAfterError)
    /\ WF_vars(SaveFiltersToCsv)
    /\ WF_vars(PrintConfirmation)

FairSpec == Init /\ [][NextFair]_vars /\ Fairness

\* A call of get_jira_filters against a server that may answer anything.
InitList ==
    /\ InitCommon
    /\ pc = "list_loop"
    /\ filter_details = <<>>
    /\ file = NoFile
    /\ permissions = <<>>

NextList ==
    \/ \E r \in AnyListingResponses : GetJiraFiltersIter(r)
    \/ GetJiraFiltersReturn

SpecList == InitList /\ [][NextList]_vars

\* A call of save_filters_to_csv with any list of details and None entries.
InitCsv ==
    /\ InitCommon
    /\ pc = "save"
    /\ filter_details \in SeqsUpTo({None} \cup {DetailOf(id) : id \in 1..3}, MaxDetails)
    /\ file \in {NoFile, StaleFile}
    /\ permissions = <<>>

NextCsv == SaveFiltersToCsv

SpecCsv == InitCsv /\ [][NextCsv]_vars

\* A call of format_permissions with any list of grants.
InitFmt ==
    /\ InitCommon
    /\ pc = "format"
    /\ filter_details = <<>>
    /\ file = NoFile
    /\ permissions \in SeqsUpTo(Grants, MaxPerms)

NextFmt == FormatPermissions

SpecFmt == InitFmt /\ [][NextFmt]_vars

(***************************************************************************)
(* Properties of get_jira_filters, under SpecList.                         *)
(***************************************************************************)
\* A well-formed listing response: status 200, a 'values' list, an 'isLast' flag.
WellFormed(r) ==
    /\ ~r.raised
    /\ r.status_code = 200
    /\ "values" \in DOMAIN r.data
    /\ "isLast" \in DOMAIN r.data

RECURSIVE ConcatValues(_)
ConcatValues(pages) ==
    IF pages = <<>> THEN <<>>
    ELSE pages[1].data["values"] \o ConcatValues(Tail(pages))

Non200(r) == ~r.raised /\ r.status_code # 200

EmptyPage(r) ==
    ~r.raised /\ r.status_code = 200 /\ "values" \in DOMAIN r.data /\ r.data["values"] = <<>>

LastFlagged(r) ==
    ~r.raised /\ r.status_code = 200 /\ "isLast" \in DOMAIN r.data /\ r.data["isLast"]

\* The loop has ended or is about to: no listing request can follow.
ListingOver ==
    \/ pc \in {"list_break", "list_returned"}
    \/ pc = "list_loop" /\ is_last

\* C1: while every listing response is well-formed, the accumulated filters are the
\* concatenation of the pages' values in page order, no request follows a page whose
\* isLast is true, and the list returned ends with the first such page.
C1_ListingIsConcatenation ==
    (\A k \in 1..Len(served) : WellFormed(served[k])) =>
        /\ filters = ConcatValues(served)
        /\ \A k \in 1..Len(served) : served[k].data["isLast"] => k = Len(served)
        /\ pc = "list_returned" => served # <<>> /\ served[Len(served)].data["isLast"]
        /\ pc # "crashed"

C1_Witness ==
    /\ pc = "list_returned"
    /\ Len(served) = 3
    /\ \A k \in 1..Len(served) : WellFormed(served[k])
    /\ filters = <<SummaryOf(2), SummaryOf(1), SummaryOf(2), SummaryOf(2)>>

\* C2: when the k-th listing response has a status other than 200, no request follows
\* it, no exception is raised, and the filters returned are those of pages 1..k-1.
C2_Non200ReturnsPrior ==
    \A k \in 1..Len(served) :
        Non200(served[k]) =>
            /\ k = Len(served)
            /\ pc \in {"list_break", "list_returned"}
            /\ filters = ConcatValues(SubSeq(served, 1, k - 1))

C2_Witness ==
    /\ pc = "list_returned"
    /\ Len(served) = 3
    /\ Non200(served[3])
    /\ Len(filters) = 2 * PageCap

\* C7 as stated: after a 200 response whose isLast is true, or whose values list is
\* empty, no listing request follows.
C7_StopsOnLastOrEmpty ==
    \A k \in 1..Len(served) :
        (LastFlagged(served[k]) \/ EmptyPage(served[k])) => k = Len(served)

\* C7 as amended: after a 200 response whose isLast is true no listing request follows
\* and the function returns; an empty page whose isLast is false does not end the
\* loop, which goes on to request the page at start_at + 50.
C7_StopsOnLastFlagOnly ==
    /\ \A k \in 1..Len(served) :
          LastFlagged(served[k]) => k = Len(served) /\ ListingOver
    /\ \A k \in 1..Len(served) :
          (EmptyPage(served[k]) /\ WellFormed(served[k]) /\ ~served[k].data["isLast"]) =>
              \/ k < Len(served)
              \/ pc = "list_loop" /\ ~is_last /\ start_at = k * 50

C7_Witness ==
    /\ Len(served) = 2
    /\ EmptyPage(served[1])
    /\ LastFlagged(served[2])
    /\ pc = "list_returned"

(***************************************************************************)
(* Properties of format_permissions, under SpecFmt.                        *)
(***************************************************************************)
Recognised(perm) ==
    "type" \in DOMAIN perm /\ perm["type"] \in {"user", "group", "projectRole"}

\* The item of a recognised grant.
Label(perm) ==
    CASE perm["type"] = "user" -> perm.user.displayName
      [] perm["type"] = "group" -> "Group: " \o perm.group.name
      [] perm["type"] = "projectRole" -> "Project Role: " \o perm.projectRole.name

\* The string the contract asks for, built from the head of the list.
RECURSIVE ExpectedJoin(_)
ExpectedJoin(perms) ==
    IF perms = <<>> THEN ""
    ELSE IF ~Recognised(Head(perms)) THEN ExpectedJoin(Tail(perms))
    ELSE IF \A i \in 1..Len(Tail(perms)) : ~Recognised(Tail(perms)[i])
         THEN Label(Head(perms))
    ELSE Label(Head(perms)) \o ", " \o ExpectedJoin(Tail(perms))

\* C8: format_permissions returns for every list of grants (no grant raises), and
\* what it returns is the comma-space join, in input order, of one item per recognised
\* grant; the number of joined items is the number of recognised grants, and an input
\* with no recognised grant gives the empty string.
C8_FormatPermissions ==
    /\ pc = "format" => ENABLED FormatPermissions
    /\ pc = "format_returned" =>
          /\ fmt_result = ExpectedJoin(permissions)
          /\ Len(formatted_permissions)
                = Cardinality({i \in 1..Len(permissions) : Recognised(permissions[i])})
          /\ (\A i \in 1..Len(permissions) : ~Recognised(permissions[i])) => fmt_result = ""
          /\ permissions = <<UserAlice, GroupEng>> => fmt_result = "Alice, Group: Eng"

C8_Witness ==
    /\ pc = "format_returned"
    /\ permissions = <<RoleDev, Unknown, UserBob>>
    /\ fmt_result = "Project Role: Dev, Bob"
    /\ Len(formatted_permissions) = 2

(***************************************************************************)
(* Properties of save_filters_to_csv, under SpecCsv.                       *)
(***************************************************************************)
\* C4 as stated: when no entry is left once the None entries are filtered out, a
\* warning is logged and nothing is written.
C4_NoWriteWhenNothingLeft ==
    (pc = "save_returned" /\ \A i \in 1..Len(filter_details) : filter_details[i] = None) =>
        /\ csv_writes = 0
        /\ "No filter details to save." \in warnings

(***************************************************************************)
(* Properties of a run of main, under Spec and FairSpec.                   *)
(***************************************************************************)
\* The futures whose fetch returned a detail, and those whose fetch returned None.
Succeeded ==
    {i \in 1..Len(futures) : futures[i].result = Returned(DetailOf(futures[i].id))}
Failed == {i \in 1..Len(futures) : futures[i].result = Returned(None)}
Hung == {i \in 1..Len(futures) : futures[i].state = "hung"}

RowsFor(i) == {j \in 1..Len(file.rows) : file.rows[j] = FilterInfo(DetailOf(futures[i].id))}

\* save_filters_to_csv has returned to main.
Saved == pc \in {"save_returned", "done"} /\ futures # <<>>

\* C3: once the report step has run, whatever the order in which the fetches
\* completed and were collected, the file holds exactly one row for each filter whose
\* fetch returned a detail and no row for a filter whose fetch returned non-200; when
\* no fetch returned a detail there is no report.
C3_OneRowPerSuccess ==
    Saved =>
        /\ Succeeded \cup Failed = 1..Len(futures)
        /\ Succeeded = {} => csv_writes = 0 /\ file = NoFile
        /\ Succeeded # {} =>
              /\ csv_writes = 1
              /\ Len(file.rows) = Cardinality(Succeeded)
              /\ \A i \in Succeeded : Cardinality(RowsFor(i)) = 1
              /\ \A i \in Failed :
                    \A j \in 1..Len(file.rows) : file.rows[j].name # DetailOf(futures[i].id).name

\* 2 failures out of 5, collected out of submission order.
C3_Witness ==
    /\ pc = "done"
    /\ Len(futures) = 5
    /\ Failed = {2, 4}
    /\ Len(file.rows) = 3
    /\ file.rows[1].name = "F5"
    /\ file.rows[3].name = "F1"

\* C5 as stated: the confirmation line is printed only in a run that wrote the file.
C5_ConfirmationOnlyOnSuccess == printed => csv_writes > 0

\* C6 as stated: no exception leaves main, whatever the listing and detail requests
\* give (a transport failure included).
C6_NoExceptionPropagates == pc # "crashed"

\* C9: fetch_filter_details is called once per listed summary, in list order (none
\* skipped, none called twice), and at most 5 calls are in flight in any state.
C9_OneFetchPerFilter ==
    /\ Cardinality(InFlight) <= 5
    /\ Len(futures) <= Len(filters)
    /\ \A k \in 1..Len(futures) : futures[k].id = filters[k].id
    /\ Len(invoked) <= Len(futures)
    /\ \A k \in 1..Len(invoked) :
          /\ invoked[k] = filters[k].id
          /\ futures[k].state # "queued"
    /\ \A k \in 1..Len(futures) : k > Len(invoked) => futures[k].state = "queued"
    /\ pc \in {"save", "save_returned"} => Len(invoked) = Len(filters)

C9_Witness ==
    /\ Cardinality(InFlight) = 5
    /\ Queued # {}
    /\ Len(invoked) = 5
    /\ Len(filters) > 5

\* C10 as stated: while fewer than 5 requests are hung, every other submitted fetch
\* is eventually collected by the main thread.
C10_OthersCollected ==
    \A i \in 1..MaxFilters :
        (i \in 1..Len(futures)) ~> (i \in yielded \/ i \in Hung \/ Cardinality(Hung) >= 5)

====
